---- MODULE Spec2Model ----
(***************************************************************************)
(* Process lifecycle orchestrator of mindctrl (src/python/src/mindctrl/     *)
(* main.py, the `lifespan` async context manager) together with the        *)
(* collaborators it drives: the bounded deque of recent events, the        *)
(* storage engine, the MQTT listener task and the registry poller task.    *)
(*                                                                         *)
(* Scheduling is asyncio's: one event loop, cooperative.  A background     *)
(* task runs only while lifespan is suspended at an await or at its yield  *)
(* (Suspended); the statements between two suspension points run without   *)
(* interleaving.  pc holds the line of main.py lifespan executes next.      *)
(*                                                                         *)
(* main.py is the only source file available.  listen_to_mqtt,             *)
(* poll_registry, setup_db, insert_summary, setup_mqtt_client,             *)
(* log_system_models and connect_to_mlflow are imported from modules whose *)
(* text is not available; their behaviour is taken from spec.md sections   *)
(* 4.3, 4.4 and 6 and is marked as such where it is defined.                *)
(***************************************************************************)
EXTENDS Integers, Sequences, FiniteSets, TLC

VARIABLES
    app_settings,       \* get_settings(): [store_type, events_type, notify_fd]
    pc,                 \* line of lifespan to execute next, or "raised"/"done"
    raised,             \* line whose exception left lifespan, "none" otherwise
    validated,          \* backend-kind checks passed so far
    poller,             \* task of poll_registry: none/pending/sleeping/fetching
    pollTimer,          \* time left of the poller's sleep
    polls,              \* poll cycles completed
    lastPoll,           \* outcome of the last completed poll cycle, and whether
                        \* the cycle before it succeeded
    pollsBeforeConnect, \* poll cycles begun before connect_to_mlflow ran
    loaded_models,      \* the LoadedModelSet
    registry_connects,  \* calls of connect_to_mlflow
    state_ring_buffer,  \* collections.deque(maxlen=20), NoDeque before line 50
    engine,             \* storage engine: none/acquired/disposing/disposed
    dbTimer,            \* time left of the await of setup_db
    disposes,           \* calls of engine.dispose()
    mqtt_client,        \* TRUE once setup_mqtt_client returned
    listener,           \* mqtt_listener_task
    cancel_requested,   \* mqtt_listener_task.cancel() is pending on the task
    cancelledFrom,      \* state of the listener when cancel() was called
    delivered,          \* messages the event bus delivered, in order
    inflight,           \* id of the message whose storage write is awaited, 0 if none
    writes,             \* ids for which insert_summary_partial was invoked
    writeFailed,        \* ids whose storage write failed
    writeAfterDispose,  \* a storage write ran on a disposing/disposed engine
    notify,             \* notification descriptor: [written, closed]
    healthcheck_done,   \* write_healthcheck_file returned
    published,          \* the state dict was yielded to the serving layer
    yielded,            \* the objects the yielded dict refers to
    bound,              \* the objects listen_to_mqtt was given
    snapshot,           \* what the serving layer last read from the buffer
    startup_order       \* startup events of lifespan, in the order they happened

vars == << app_settings, pc, raised, validated, poller, pollTimer, polls, lastPoll,
           pollsBeforeConnect, loaded_models, registry_connects, state_ring_buffer,
           engine, dbTimer, disposes, mqtt_client, listener, cancel_requested,
           cancelledFrom, delivered, inflight, writes, writeFailed,
           writeAfterDispose, notify, healthcheck_done, published, yielded, bound,
           snapshot, startup_order >>

-----------------------------------------------------------------------------
(* Bounds of the model *)

MaxDbDelay == 11    \* longest suspension of `await setup_db`, in time units
MaxMsgs == 3        \* messages the event bus delivers
MaxPolls == 2       \* poll cycles
MaxAppends == 22    \* appends in the window specification

(* Program constants *)

PollInterval == 10      \* poll_registry(10.0)
WindowCapacity == 20    \* collections.deque(maxlen=20)

StoreTypes == {"psql", "sqlite"}
EventsTypes == {"mqtt", "kafka"}
NotifyFds == {"unset", "3"}

ModelIds == {"m1", "m2"}
StartupModels == {"m1"}             \* what log_system_models returns
PollResults == SUBSET ModelIds      \* what a registry fetch may return

NoDeque == [maxlen |-> 0, items |-> << >>]

\* nothing yielded yet, nothing handed to the listener yet
NoState == [state_ring_buffer |-> "none", database_engine |-> "none"]
NoBinding == [buffer |-> "none", engine |-> "none"]

-----------------------------------------------------------------------------
(* Pure helpers *)

Min(a, b) == IF a < b THEN a ELSE b

\* the last n elements of s (all of s when it is shorter)
LastN(s, n) == SubSeq(s, Len(s) - Min(Len(s), n) + 1, Len(s))

\* ids of the well-formed messages among the delivered ones, in delivery order
RECURSIVE WellFormedIds(_)
WellFormedIds(ms) ==
    IF ms = << >> THEN << >>
    ELSE IF Head(ms).ok THEN << Head(ms).id >> \o WellFormedIds(Tail(ms))
         ELSE WellFormedIds(Tail(ms))

\* Faulty variant: a deque that was given no maxlen: nothing is ever discarded
DequeAppendUnbounded(d, r) == [d EXCEPT !.items = d.items \o << r >>]

\* Faulty variant: a full deque overwrites its newest element
DequeAppendEvictNewest(d, r) ==
    IF Len(d.items) >= d.maxlen
    THEN [d EXCEPT !.items = SubSeq(d.items, 1, Len(d.items) - 1) \o << r >>]
    ELSE [d EXCEPT !.items = d.items \o << r >>]

\* deque.append on a deque constructed with maxlen: when full, the element at
\* the other end (the oldest) is discarded
DequeAppend(d, r) ==
    IF Len(d.items) >= d.maxlen
    THEN [d EXCEPT !.items = Tail(d.items) \o << r >>]
    ELSE [d EXCEPT !.items = d.items \o << r >>]

\* positions at which lifespan is suspended and the event loop runs other tasks
Suspended == {"L55_await", "serving", "L89", "L92_await"}

LoopFree == pc \in Suspended

\* lines of the startup half and of the shutdown half of lifespan
StartLines == {"L54", "L55", "L62", "L64", "L72", "L73", "L75"}
StopLines == {"L89", "L92"}

ListenerTerminal == listener \in {"cancelled", "failed"}

-----------------------------------------------------------------------------
Init ==
    /\ app_settings \in [store_type : StoreTypes, events_type : EventsTypes,
                         notify_fd : NotifyFds]
    /\ pc = "L47"
    /\ raised = "none"
    /\ validated = {}
    /\ poller = "none"
    /\ pollTimer = 0
    /\ polls = 0
    /\ lastPoll = [ok |-> TRUE, result |-> {}, prevOk |-> TRUE]
    /\ pollsBeforeConnect = 0
    /\ loaded_models = {}
    /\ registry_connects = 0
    /\ state_ring_buffer = NoDeque
    /\ engine = "none"
    /\ dbTimer = 0
    /\ disposes = 0
    /\ mqtt_client = FALSE
    /\ listener = "none"
    /\ cancel_requested = FALSE
    /\ cancelledFrom = "none"
    /\ delivered = << >>
    /\ inflight = 0
    /\ writes = {}
    /\ writeFailed = {}
    /\ writeAfterDispose = FALSE
    /\ notify = [written |-> 0, closed |-> FALSE]
    /\ healthcheck_done = FALSE
    /\ published = FALSE
    /\ yielded = NoState
    /\ bound = NoBinding
    /\ snapshot = << >>
    /\ startup_order = << >>

-----------------------------------------------------------------------------
(* Frames *)

pollerVars == << poller, pollTimer, polls, lastPoll, pollsBeforeConnect >>
listenerVars == << listener, cancel_requested, cancelledFrom, delivered, inflight,
                   writes, writeFailed, writeAfterDispose >>
storageVars == << engine, dbTimer, disposes >>
readyVars == << notify, healthcheck_done, published >>
servingVars == << yielded, bound, snapshot, startup_order >>

\* an exception leaves lifespan at `line`
Raise(line) == pc' = "raised" /\ raised' = line

-----------------------------------------------------------------------------
(* lifespan, startup half: lines 43-83 *)

\* line 47: asyncio.create_task(poll_registry(10.0))
CreatePollerTask ==
    /\ pc = "L47"
    /\ poller' = "pending"
    /\ startup_order' = Append(startup_order, "poller")
    /\ pc' = "L50"
    /\ UNCHANGED << app_settings, yielded, bound, snapshot, raised, validated, pollTimer, polls, lastPoll,
                    pollsBeforeConnect, loaded_models, registry_connects,
                    state_ring_buffer, storageVars, mqtt_client, listenerVars,
                    readyVars >>

\* line 50: state_ring_buffer = collections.deque(maxlen=20)
CreateRingBuffer ==
    /\ pc = "L50"
    /\ state_ring_buffer' = [maxlen |-> WindowCapacity, items |-> << >>]
    /\ pc' = "L53"
    /\ UNCHANGED << app_settings, servingVars, raised, validated, pollerVars, loaded_models,
                    registry_connects, storageVars, mqtt_client, listenerVars,
                    readyVars >>

\* lines 53-54: if not store_type == "psql": raise ValueError
CheckStoreType ==
    /\ pc = "L53"
    /\ IF app_settings.store_type = "psql"
       THEN /\ validated' = validated \cup {"store"}
            /\ pc' = "L55"
            /\ UNCHANGED raised
       ELSE /\ Raise("L54")
            /\ UNCHANGED validated
    /\ UNCHANGED << app_settings, servingVars, pollerVars, loaded_models, registry_connects,
                    state_ring_buffer, storageVars, mqtt_client, listenerVars,
                    readyVars >>

\* line 55: engine = await setup_db(...), the call: lifespan suspends for up to
\* MaxDbDelay time units (network I/O)
SetupDbCall ==
    /\ pc = "L55"
    /\ \E d \in 0..MaxDbDelay : dbTimer' = d
    /\ pc' = "L55_await"
    /\ UNCHANGED << app_settings, servingVars, raised, validated, pollerVars, loaded_models,
                    registry_connects, state_ring_buffer, engine, disposes,
                    mqtt_client, listenerVars, readyVars >>

\* line 55, the return: the engine is acquired, or setup_db raises; lines 56-58
\* then bind insert_summary to the engine (insert_summary_partial)
SetupDbReturn ==
    /\ pc = "L55_await"
    /\ dbTimer = 0
    /\ \/ /\ engine' = "acquired"
          /\ startup_order' = Append(startup_order, "engine")
          /\ pc' = "L61"
          /\ UNCHANGED raised
       \/ /\ Raise("L55")
          /\ UNCHANGED << engine, startup_order >>
    /\ UNCHANGED << app_settings, yielded, bound, snapshot, validated, pollerVars, loaded_models,
                    registry_connects, state_ring_buffer, dbTimer, disposes,
                    mqtt_client, listenerVars, readyVars >>

\* Faulty variant: the event-bus kind is not checked
CheckEventsTypeSkipped ==
    /\ pc = "L61"
    /\ validated' = validated \cup {"events"}
    /\ pc' = "L64"
    /\ UNCHANGED << app_settings, servingVars, raised, pollerVars, loaded_models,
                    registry_connects, state_ring_buffer, storageVars, mqtt_client,
                    listenerVars, readyVars >>

\* lines 61-62: if not events_type == "mqtt": raise ValueError
CheckEventsType ==
    /\ pc = "L61"
    /\ IF app_settings.events_type = "mqtt"
       THEN /\ validated' = validated \cup {"events"}
            /\ pc' = "L64"
            /\ UNCHANGED raised
       ELSE /\ Raise("L62")
            /\ UNCHANGED validated
    /\ UNCHANGED << app_settings, servingVars, pollerVars, loaded_models, registry_connects,
                    state_ring_buffer, storageVars, mqtt_client, listenerVars,
                    readyVars >>

\* line 64: mqtt_client = setup_mqtt_client(...), which may raise
SetupMqttClient ==
    /\ pc = "L64"
    /\ \/ /\ mqtt_client' = TRUE
          /\ pc' = "L67"
          /\ UNCHANGED raised
       \/ /\ Raise("L64")
          /\ UNCHANGED mqtt_client
    /\ UNCHANGED << app_settings, servingVars, validated, pollerVars, loaded_models,
                    registry_connects, state_ring_buffer, storageVars,
                    listenerVars, readyVars >>

\* lines 67-69: mqtt_listener_task = loop.create_task(listen_to_mqtt(...))
CreateListenerTask ==
    /\ pc = "L67"
    /\ listener' = "pending"
    /\ bound' = [buffer |-> "deque@50", engine |-> "engine@55"]
    /\ startup_order' = Append(startup_order, "listener")
    /\ pc' = "L72"
    /\ UNCHANGED << app_settings, yielded, snapshot, raised, validated, pollerVars, loaded_models,
                    registry_connects, state_ring_buffer, storageVars, mqtt_client,
                    cancel_requested, cancelledFrom, delivered, inflight, writes,
                    writeFailed, writeAfterDispose, readyVars >>

\* line 72: loaded_models = log_system_models(...), which may raise
LogSystemModels ==
    /\ pc = "L72"
    /\ \/ /\ loaded_models' = StartupModels
          /\ pc' = "L73"
          /\ UNCHANGED raised
       \/ /\ Raise("L72")
          /\ UNCHANGED loaded_models
    /\ UNCHANGED << app_settings, servingVars, validated, pollerVars, registry_connects,
                    state_ring_buffer, storageVars, mqtt_client, listenerVars,
                    readyVars >>

\* line 73: connect_to_mlflow(app_settings), which may raise
ConnectToMlflow ==
    /\ pc = "L73"
    /\ \/ /\ registry_connects' = registry_connects + 1
          /\ pc' = "L75"
          /\ UNCHANGED raised
       \/ /\ Raise("L73")
          /\ UNCHANGED registry_connects
    /\ UNCHANGED << app_settings, servingVars, validated, pollerVars, loaded_models,
                    state_ring_buffer, storageVars, mqtt_client, listenerVars,
                    readyVars >>

\* line 31: os.write(int(notification_fd), b"\n") on an open descriptor
OsWrite(n) == [n EXCEPT !.written = @ + 1]

\* Faulty variant: the descriptor is left open
OsCloseSkipped(n) == n

\* line 32: os.close(int(notification_fd))
OsClose(n) == [n EXCEPT !.closed = TRUE]

\* lines 27-32: if notify_fd is set, os.write(fd, b"\n") then os.close(fd);
\* os.write raises on a descriptor that cannot be written, and then nothing
\* was written; os.close of the descriptor just written returns
write_healthcheck_file ==
    IF app_settings.notify_fd = "unset"
    THEN /\ healthcheck_done' = TRUE
         /\ UNCHANGED << notify, raised >>
         /\ pc' = "L79"
    ELSE \/ /\ notify' = OsClose(OsWrite(notify))
            /\ healthcheck_done' = TRUE
            /\ pc' = "L79"
            /\ UNCHANGED raised
         \/ /\ Raise("L75")
            /\ UNCHANGED << notify, healthcheck_done >>

\* Faulty variant: readiness signalled on entry to lifespan, before startup has run
WriteHealthcheckFileAtEntry ==
    /\ pc = "L47"
    /\ ~healthcheck_done
    /\ app_settings.notify_fd # "unset"
    /\ notify' = [written |-> notify.written + 1, closed |-> TRUE]
    /\ healthcheck_done' = TRUE
    /\ UNCHANGED << app_settings, servingVars, pc, raised, validated, pollerVars, loaded_models,
                    registry_connects, state_ring_buffer, storageVars, mqtt_client,
                    listenerVars, published >>

\* line 75: write_healthcheck_file(app_settings)
WriteHealthcheckFile ==
    /\ pc = "L75"
    /\ write_healthcheck_file
    /\ UNCHANGED << app_settings, servingVars, validated, pollerVars, loaded_models,
                    registry_connects, state_ring_buffer, storageVars, mqtt_client,
                    listenerVars, published >>

\* Faulty variant: a copy of the buffer is yielded, not the buffer itself
YieldStateCopy ==
    /\ pc = "L79"
    /\ published' = TRUE
    /\ yielded' = [state_ring_buffer |-> "copy@80", database_engine |-> "engine@55"]
    /\ startup_order' = Append(startup_order, "published")
    /\ pc' = "serving"
    /\ UNCHANGED << app_settings, bound, snapshot, raised, validated, pollerVars, loaded_models,
                    registry_connects, state_ring_buffer, storageVars, mqtt_client,
                    listenerVars, notify, healthcheck_done >>

\* lines 79-83: yield {state_ring_buffer, loaded_models, database_engine}
YieldState ==
    /\ pc = "L79"
    /\ published' = TRUE
    /\ yielded' = [state_ring_buffer |-> "deque@50", database_engine |-> "engine@55"]
    /\ startup_order' = Append(startup_order, "published")
    /\ pc' = "serving"
    /\ UNCHANGED << app_settings, bound, snapshot, raised, validated, pollerVars, loaded_models,
                    registry_connects, state_ring_buffer, storageVars, mqtt_client,
                    listenerVars, notify, healthcheck_done >>

-----------------------------------------------------------------------------
(* lifespan, shutdown half: lines 85-92 *)

\* the serving layer ends and resumes lifespan after its yield; the tasks
\* created during startup have had their first run by then
Shutdown ==
    /\ pc = "serving"
    /\ poller # "pending" /\ listener # "pending"
    /\ pc' = "L86"
    /\ UNCHANGED << app_settings, servingVars, raised, validated, pollerVars, loaded_models,
                    registry_connects, state_ring_buffer, storageVars, mqtt_client,
                    listenerVars, readyVars >>

\* Faulty variant: the poller task is cancelled along with the listener
CancelAllTasks ==
    /\ pc = "L86"
    /\ cancel_requested' = ~ListenerTerminal
    /\ cancelledFrom' = listener
    /\ poller' = "cancelled"
    /\ pc' = "L89"
    /\ UNCHANGED << app_settings, servingVars, raised, validated, pollTimer, polls, lastPoll, pollsBeforeConnect, loaded_models,
                    registry_connects, state_ring_buffer, storageVars, mqtt_client,
                    listener, delivered, inflight, writes, writeFailed,
                    writeAfterDispose, readyVars >>

\* line 86: mqtt_listener_task.cancel(); a task that is already done is left alone
CancelListener ==
    /\ pc = "L86"
    /\ cancel_requested' = ~ListenerTerminal
    /\ cancelledFrom' = listener
    /\ pc' = "L89"
    /\ UNCHANGED << app_settings, servingVars, raised, validated, pollerVars, loaded_models,
                    registry_connects, state_ring_buffer, storageVars, mqtt_client,
                    listener, delivered, inflight, writes, writeFailed,
                    writeAfterDispose, readyVars >>

\* Faulty variant: the listener task is not awaited: lifespan goes on to dispose at once
AwaitListenerNoWait ==
    /\ pc = "L89"
    /\ pc' = "L92"
    /\ UNCHANGED << app_settings, servingVars, raised, validated, pollerVars, loaded_models,
                    registry_connects, state_ring_buffer, storageVars, mqtt_client,
                    listenerVars, readyVars >>

\* Faulty variant: the await without its try/except: CancelledError leaves lifespan
AwaitListenerPropagates ==
    /\ pc = "L89"
    /\ ListenerTerminal
    /\ Raise("L89")
    /\ UNCHANGED << app_settings, servingVars, validated, pollerVars, loaded_models,
                    registry_connects, state_ring_buffer, storageVars, mqtt_client,
                    listenerVars, readyVars >>

\* lines 88-91: try: await mqtt_listener_task / except CancelledError: pass.
\* The await returns once the task is done: a cancelled task raises
\* CancelledError, which is absorbed; a task that died of another exception
\* re-raises it here and it leaves lifespan
AwaitListener ==
    /\ pc = "L89"
    /\ ListenerTerminal
    /\ IF listener = "cancelled"
       THEN pc' = "L92" /\ UNCHANGED raised
       ELSE Raise("L89")
    /\ UNCHANGED << app_settings, servingVars, validated, pollerVars, loaded_models,
                    registry_connects, state_ring_buffer, storageVars, mqtt_client,
                    listenerVars, readyVars >>

\* line 92: await engine.dispose(), the call
DisposeEngine ==
    /\ pc = "L92"
    /\ engine' = "disposing"
    /\ disposes' = disposes + 1
    /\ pc' = "L92_await"
    /\ UNCHANGED << app_settings, servingVars, raised, validated, pollerVars, loaded_models,
                    registry_connects, state_ring_buffer, dbTimer, mqtt_client,
                    listenerVars, readyVars >>

\* line 92, the return: lifespan ends
DisposeReturn ==
    /\ pc = "L92_await"
    /\ engine' = "disposed"
    /\ pc' = "done"
    /\ UNCHANGED << app_settings, servingVars, raised, validated, pollerVars, loaded_models,
                    registry_connects, state_ring_buffer, dbTimer, disposes,
                    mqtt_client, listenerVars, readyVars >>

Lifespan ==
    \/ CreatePollerTask \/ CreateRingBuffer \/ CheckStoreType \/ SetupDbCall
    \/ SetupDbReturn \/ CheckEventsType \/ SetupMqttClient \/ CreateListenerTask
    \/ LogSystemModels \/ ConnectToMlflow \/ WriteHealthcheckFile \/ YieldState
    \/ Shutdown \/ CancelListener \/ AwaitListener \/ DisposeEngine \/ DisposeReturn

-----------------------------------------------------------------------------
(* poll_registry(10.0): the registry poller task (spec.md 4.4).  An unbounded  *)
(* loop: sleep(interval), fetch the registry snapshot, on success replace the *)
(* LoadedModelSet, on failure keep the previous one.                          *)
(* main.py hands the task nothing but the interval; that the set the task     *)
(* refreshes is the one lifespan yields as "loaded_models" is spec.md 3.      *)

\* Faulty variant: a successful fetch is merged into the previous set
RefreshModelsMerge(current, outcome) ==
    IF outcome.ok THEN current \cup outcome.result ELSE current

\* the LoadedModelSet after a poll cycle whose fetch gave `outcome`
RefreshModels(current, outcome) ==
    IF outcome.ok THEN outcome.result ELSE current

\* what a fetch may give: a snapshot, or a failure
FetchOutcomes ==
    [ok : {TRUE}, result : PollResults] \cup {[ok |-> FALSE, result |-> {}]}

\* first run of the task: it enters its loop and sleeps for the interval
PollerStart ==
    /\ LoopFree
    /\ poller = "pending"
    /\ poller' = "sleeping"
    /\ pollTimer' = PollInterval
    /\ UNCHANGED << app_settings, servingVars, pc, raised, validated, polls, lastPoll,
                    pollsBeforeConnect, loaded_models, registry_connects,
                    state_ring_buffer, storageVars, mqtt_client, listenerVars,
                    readyVars >>

\* the sleep has elapsed: the fetch is issued
PollerFetch ==
    /\ LoopFree
    /\ poller = "sleeping"
    /\ pollTimer = 0
    /\ polls < MaxPolls
    /\ poller' = "fetching"
    /\ pollsBeforeConnect' =
          IF registry_connects = 0 THEN pollsBeforeConnect + 1 ELSE pollsBeforeConnect
    /\ UNCHANGED << app_settings, servingVars, pc, raised, validated, pollTimer, polls, lastPoll,
                    loaded_models, registry_connects, state_ring_buffer, storageVars,
                    mqtt_client, listenerVars, readyVars >>

\* the fetch returns: the cycle ends and the next sleep begins
PollerFetchReturn ==
    /\ LoopFree
    /\ poller = "fetching"
    /\ \E outcome \in FetchOutcomes :
          /\ loaded_models' = RefreshModels(loaded_models, outcome)
          /\ lastPoll' = [ok |-> outcome.ok, result |-> outcome.result,
                          prevOk |-> lastPoll.ok]
    /\ polls' = polls + 1
    /\ poller' = "sleeping"
    /\ pollTimer' = PollInterval
    /\ UNCHANGED << app_settings, servingVars, pc, raised, validated, pollsBeforeConnect,
                    registry_connects, state_ring_buffer, storageVars, mqtt_client,
                    listenerVars, readyVars >>

Poller == PollerStart \/ PollerFetch \/ PollerFetchReturn

-----------------------------------------------------------------------------
(* listen_to_mqtt(mqtt_client, state_ring_buffer, insert_summary_partial):    *)
(* the event listener task (spec.md 4.3).                                     *)
(* Connecting -> Listening -> (message) Processing -> Listening -> ...        *)
(*            -> Cancelling -> Stopped                                        *)

\* first run of the task
ListenerStart ==
    /\ LoopFree
    /\ listener = "pending"
    /\ listener' = "connecting"
    /\ UNCHANGED << app_settings, servingVars, pc, raised, validated, pollerVars, loaded_models,
                    registry_connects, state_ring_buffer, storageVars, mqtt_client,
                    cancel_requested, cancelledFrom, delivered, inflight, writes,
                    writeFailed, writeAfterDispose, readyVars >>

\* connection and subscription: established, or an unrecoverable failure that
\* terminates the task
ListenerConnect ==
    /\ LoopFree
    /\ listener = "connecting"
    /\ ~cancel_requested
    /\ listener' \in {"listening", "failed"}
    /\ UNCHANGED << app_settings, servingVars, pc, raised, validated, pollerVars, loaded_models,
                    registry_connects, state_ring_buffer, storageVars, mqtt_client,
                    cancel_requested, cancelledFrom, delivered, inflight, writes,
                    writeFailed, writeAfterDispose, readyVars >>

\* Faulty variant: a malformed message raises out of the listener's loop
ListenerReceiveStrict ==
    /\ LoopFree
    /\ listener = "listening"
    /\ ~cancel_requested
    /\ Len(delivered) < MaxMsgs
    /\ \E ok \in BOOLEAN :
          LET id == Len(delivered) + 1 IN
          /\ delivered' = Append(delivered, [id |-> id, ok |-> ok])
          /\ IF ok
             THEN /\ state_ring_buffer' = DequeAppend(state_ring_buffer, id)
                  /\ listener' = "writing"
                  /\ inflight' = id
             ELSE /\ listener' = "failed"
                  /\ UNCHANGED << state_ring_buffer, inflight >>
    /\ UNCHANGED << app_settings, servingVars, pc, raised, validated, pollerVars, loaded_models,
                    registry_connects, storageVars, mqtt_client, cancel_requested,
                    cancelledFrom, writes, writeFailed, writeAfterDispose,
                    readyVars >>

\* a message arrives and is deserialized.  Malformed: logged and skipped.
\* Well-formed: appended to the deque, then the storage write is awaited
ListenerReceive ==
    /\ LoopFree
    /\ listener = "listening"
    /\ ~cancel_requested
    /\ Len(delivered) < MaxMsgs
    /\ \E ok \in BOOLEAN :
          LET id == Len(delivered) + 1 IN
          /\ delivered' = Append(delivered, [id |-> id, ok |-> ok])
          /\ IF ok
             THEN /\ state_ring_buffer' = DequeAppend(state_ring_buffer, id)
                  /\ listener' = "writing"
                  /\ inflight' = id
             ELSE UNCHANGED << state_ring_buffer, listener, inflight >>
    /\ UNCHANGED << app_settings, servingVars, pc, raised, validated, pollerVars, loaded_models,
                    registry_connects, storageVars, mqtt_client, cancel_requested,
                    cancelledFrom, writes, writeFailed, writeAfterDispose,
                    readyVars >>

\* insert_summary_partial(...) returns or fails; a failure is logged and the
\* listener goes on.  The message in flight is finished even when cancellation
\* has been requested
ListenerWrite ==
    /\ LoopFree
    /\ listener = "writing"
    /\ writes' = writes \cup {inflight}
    /\ \E success \in BOOLEAN :
          writeFailed' = IF success THEN writeFailed ELSE writeFailed \cup {inflight}
    /\ writeAfterDispose' = (writeAfterDispose \/ engine \in {"disposing", "disposed"})
    /\ listener' = "listening"
    /\ inflight' = 0
    /\ UNCHANGED << app_settings, servingVars, pc, raised, validated, pollerVars, loaded_models,
                    registry_connects, state_ring_buffer, storageVars, mqtt_client,
                    cancel_requested, cancelledFrom, delivered, readyVars >>

\* Faulty variant: CancelledError ends the task at whichever await it is
\* suspended in, the awaited storage write included
ListenerCancelledAnywhere ==
    /\ LoopFree
    /\ cancel_requested
    /\ listener \in {"connecting", "listening", "writing"}
    /\ listener' = "cancelled"
    /\ cancel_requested' = FALSE
    /\ UNCHANGED << app_settings, servingVars, pc, raised, validated, pollerVars, loaded_models,
                    registry_connects, state_ring_buffer, storageVars, mqtt_client,
                    cancelledFrom, delivered, inflight, writes, writeFailed,
                    writeAfterDispose, readyVars >>

\* the cancellation is observed between messages (or while connecting): the
\* task ends cancelled
ListenerCancelled ==
    /\ LoopFree
    /\ cancel_requested
    /\ listener \in {"connecting", "listening"}
    /\ listener' = "cancelled"
    /\ cancel_requested' = FALSE
    /\ UNCHANGED << app_settings, servingVars, pc, raised, validated, pollerVars, loaded_models,
                    registry_connects, state_ring_buffer, storageVars, mqtt_client,
                    cancelledFrom, delivered, inflight, writes, writeFailed,
                    writeAfterDispose, readyVars >>

Listener ==
    \/ ListenerStart \/ ListenerConnect \/ ListenerReceive \/ ListenerWrite
    \/ ListenerCancelled

-----------------------------------------------------------------------------
(* The serving layer: a request handler reads the buffer through the yielded  *)
(* state (spec.md 4.2, snapshot()).  Handlers run on the same event loop, so  *)
(* a read is one step between the steps of the tasks.                         *)

\* the contents of the object a reference designates: the deque of line 50, or
\* an object nothing has ever been appended to
Deref(ref) == IF ref = "deque@50" THEN state_ring_buffer.items ELSE << >>

SnapshotRead ==
    /\ pc = "serving"
    /\ published
    /\ snapshot' = Deref(yielded.state_ring_buffer)
    /\ UNCHANGED << app_settings, yielded, bound, startup_order, pc, raised,
                    validated, pollerVars, loaded_models, registry_connects,
                    state_ring_buffer, storageVars, mqtt_client, listenerVars,
                    readyVars >>

-----------------------------------------------------------------------------
(* Time.  It passes only while lifespan is suspended and no task is ready to  *)
(* run; a timer that has reached 0 fires before more time passes.             *)

Tick ==
    /\ LoopFree
    /\ poller # "pending" /\ listener # "pending"
    /\ pc = "L55_await" => dbTimer > 0
    /\ poller = "sleeping" => (pollTimer > 0 \/ polls >= MaxPolls)
    /\ (pc = "L55_await" /\ dbTimer > 0) \/ (poller = "sleeping" /\ pollTimer > 0)
    /\ dbTimer' = IF pc = "L55_await" THEN dbTimer - 1 ELSE dbTimer
    /\ pollTimer' = IF poller = "sleeping" /\ pollTimer > 0
                    THEN pollTimer - 1 ELSE pollTimer
    /\ UNCHANGED << app_settings, servingVars, pc, raised, validated, poller, polls, lastPoll,
                    pollsBeforeConnect, loaded_models, registry_connects,
                    state_ring_buffer, engine, disposes, mqtt_client, listenerVars,
                    readyVars >>

-----------------------------------------------------------------------------
Next == Lifespan \/ Poller \/ Listener \/ SnapshotRead \/ Tick

Spec == Init /\ [][Next]_vars

-----------------------------------------------------------------------------
(* The deque on its own: a deque of any capacity up to the program's, and a   *)
(* sequence of appends of distinct records.                                   *)

InitWindow ==
    /\ app_settings = [store_type |-> "psql", events_type |-> "mqtt",
                       notify_fd |-> "unset"]
    /\ pc = "window"
    /\ raised = "none"
    /\ validated = {}
    /\ poller = "none"
    /\ pollTimer = 0
    /\ polls = 0
    /\ lastPoll = [ok |-> TRUE, result |-> {}, prevOk |-> TRUE]
    /\ pollsBeforeConnect = 0
    /\ loaded_models = {}
    /\ registry_connects = 0
    /\ \E c \in 1..WindowCapacity : state_ring_buffer = [maxlen |-> c, items |-> << >>]
    /\ engine = "none"
    /\ dbTimer = 0
    /\ disposes = 0
    /\ mqtt_client = FALSE
    /\ listener = "none"
    /\ cancel_requested = FALSE
    /\ cancelledFrom = "none"
    /\ delivered = << >>
    /\ inflight = 0
    /\ writes = {}
    /\ writeFailed = {}
    /\ writeAfterDispose = FALSE
    /\ notify = [written |-> 0, closed |-> FALSE]
    /\ healthcheck_done = FALSE
    /\ published = FALSE
    /\ yielded = NoState
    /\ bound = NoBinding
    /\ snapshot = << >>
    /\ startup_order = << >>

\* state_ring_buffer.append(record)
WindowAppendStep ==
    /\ pc = "window"
    /\ Len(delivered) < MaxAppends
    /\ LET id == Len(delivered) + 1 IN
          /\ delivered' = Append(delivered, [id |-> id, ok |-> TRUE])
          /\ state_ring_buffer' = DequeAppend(state_ring_buffer, id)
    /\ UNCHANGED << app_settings, servingVars, pc, raised, validated, pollerVars, loaded_models,
                    registry_connects, storageVars, mqtt_client, listener,
                    cancel_requested, cancelledFrom, inflight, writes, writeFailed,
                    writeAfterDispose, readyVars >>

\* list(state_ring_buffer): a read between two appends
WindowReadStep ==
    /\ pc = "window"
    /\ snapshot' = state_ring_buffer.items
    /\ UNCHANGED << app_settings, yielded, bound, startup_order, pc, raised,
                    validated, pollerVars, loaded_models, registry_connects,
                    state_ring_buffer, storageVars, mqtt_client, listenerVars,
                    readyVars >>

NextWindow == WindowAppendStep \/ WindowReadStep

SpecWindow == InitWindow /\ [][NextWindow]_vars

\* the lifecycle and the deque on its own, side by side
InitAll == Init \/ InitWindow
NextAll == Next \/ NextWindow
SpecAll == InitAll /\ [][NextAll]_vars

-----------------------------------------------------------------------------
(* Properties *)

items == state_ring_buffer.items

\* C1: when lifespan raises on an unsupported storage kind (line 54), no
\* background task (poller or listener) has been created and no readiness byte
\* has been written; and an unsupported storage kind never gets past that check.
C1_UnsupportedStoreBeforeTasks ==
    /\ app_settings.store_type # "psql" => pc \in {"L47", "L50", "L53", "raised"}
    /\ (pc = "raised" /\ raised = "L54") =>
          /\ poller = "none"
          /\ listener = "none"
          /\ notify.written = 0

\* C2: when lifespan raises on an unsupported event-bus kind (line 62), with a
\* supported storage kind, no storage engine is held: none was acquired, or it
\* has been disposed.
C2_UnsupportedEventsBeforeEngine ==
    (pc = "raised" /\ raised = "L62") => engine \in {"none", "disposed"}

\* C3: when setup_db fails (line 55), startup aborts with nothing published to
\* the serving layer and with no background task started.
C3_StorageFailureStartsNothing ==
    (pc = "raised" /\ raised = "L55") =>
          /\ ~published
          /\ poller = "none"
          /\ listener = "none"

\* what the readiness signal must come after
StartupComplete ==
    /\ {"store", "events"} \subseteq validated
    /\ engine # "none"
    /\ state_ring_buffer # NoDeque
    /\ poller # "none"
    /\ listener # "none"

\* C4: the readiness byte is written, and the readiness step is taken, only
\* after both kind checks passed, the engine is acquired, the deque exists and
\* both tasks are created; the state is published only after the readiness
\* step; and a start that failed has written no readiness byte.
C4_ReadinessAfterStartup ==
    /\ notify.written > 0 => StartupComplete
    /\ healthcheck_done => StartupComplete
    /\ published => healthcheck_done
    /\ (pc = "raised" /\ raised \in StartLines) => notify.written = 0

C4_Witness ==
    /\ pc = "serving"
    /\ published
    /\ notify.written = 1

\* C5: the engine is disposed at most once, and only once the listener task is
\* done, so that no storage write runs on an engine being disposed or disposed;
\* a shutdown that runs to its end has disposed it exactly once.
C5_DisposeAfterListenerDone ==
    /\ disposes <= 1
    /\ engine \in {"disposing", "disposed"} => (ListenerTerminal /\ disposes = 1)
    /\ ~writeAfterDispose
    /\ pc = "done" => (disposes = 1 /\ engine = "disposed")

C5_Witness ==
    /\ pc = "done"
    /\ disposes = 1
    /\ listener = "cancelled"
    /\ Len(delivered) = 2
    /\ items = << 1, 2 >>
    /\ writes = {1, 2}

\* C6: when the listener ends by cancellation, the shutdown half of lifespan
\* does not raise, whatever the listener was doing when cancel() was called
\* (connecting, waiting for a message, awaiting a storage write): a cancelled
\* listener can always reach its end, and lifespan can then always go on to
\* its end.
C6_CancellationAbsorbed ==
    /\ (pc = "raised" /\ raised \in StopLines) => listener = "failed"
    /\ listener = "cancelled" => pc \in {"L89", "L92", "L92_await", "done"}
    /\ (pc = "L89" /\ cancel_requested) => ENABLED Listener
    /\ (pc \in {"L89", "L92", "L92_await"} /\ listener = "cancelled") => ENABLED Lifespan

C6_Witness ==
    /\ pc = "done"
    /\ listener = "cancelled"
    /\ cancelledFrom = "writing"

\* C7: after N appends to a deque of capacity C its length is min(N, C) and it
\* holds the last min(N, C) records appended, in order (C = 3: after 4 appends
\* records 2,3,4, after 5 appends records 3,4,5); an append to a full deque
\* drops exactly the oldest record and keeps the rest in order.
C7_WindowKeepsLastC ==
    /\ [](LET n == Len(delivered)
              c == state_ring_buffer.maxlen
              k == Min(n, c)
          IN /\ Len(items) = k
             /\ items = [i \in 1..k |-> n - k + i]
             /\ (c = 3 /\ n = 4) => items = << 2, 3, 4 >>
             /\ (c = 3 /\ n = 5) => items = << 3, 4, 5 >>)
    /\ [][(Len(items) = state_ring_buffer.maxlen /\ delivered' # delivered) =>
             items' = Tail(items) \o << Len(delivered') >>]_vars

C7_Witness ==
    /\ state_ring_buffer.maxlen = WindowCapacity
    /\ Len(delivered) = WindowCapacity + 2
    /\ Head(items) = 3

\* C8: connect_to_mlflow runs at most once, and no poll cycle begins before it
\* has run.
C8_ConnectBeforeFirstPoll ==
    /\ registry_connects <= 1
    /\ pollsBeforeConnect = 0

\* C9: a poll cycle that succeeded leaves the LoadedModelSet equal to its
\* result (replaced whole), one that failed leaves it as it was.
C9_PollReplacesOrRetains ==
    [][polls' = polls + 1 =>
          IF lastPoll'.ok THEN loaded_models' = lastPoll'.result
                          ELSE loaded_models' = loaded_models]_vars

C9_Witness ==
    /\ published
    /\ polls = 2
    /\ lastPoll.ok /\ ~lastPoll.prevOk
    /\ loaded_models = {"m2"}

\* C10: the deque holds the well-formed messages delivered so far, in delivery
\* order (the last maxlen of them), whatever malformed messages and failed
\* storage writes came before; and no message ends the listener: it fails only
\* while connecting.
C10_WellFormedAppendedInOrder ==
    /\ state_ring_buffer # NoDeque =>
          items = LastN(WellFormedIds(delivered), state_ring_buffer.maxlen)
    /\ listener = "failed" => delivered = << >>
    /\ inflight # 0 => (listener = "writing" /\ inflight = items[Len(items)])

C10_Witness ==
    /\ delivered = << [id |-> 1, ok |-> FALSE], [id |-> 2, ok |-> TRUE],
                      [id |-> 3, ok |-> TRUE] >>
    /\ 2 \in writeFailed
    /\ items = << 2, 3 >>

\* C11: once write_healthcheck_file has returned, a configured descriptor has
\* had exactly one byte written and is closed, and an unset one has had nothing
\* written and is not closed; the descriptor is closed only after the write, is
\* never written again, and an unset descriptor never makes the start fail.
C11_ReadinessByteOnceThenClosed ==
    /\ notify.written <= 1
    /\ notify.closed => notify.written = 1
    /\ healthcheck_done =>
          IF app_settings.notify_fd = "unset"
          THEN notify = [written |-> 0, closed |-> FALSE]
          ELSE notify = [written |-> 1, closed |-> TRUE]
    /\ ~healthcheck_done => notify = [written |-> 0, closed |-> FALSE]
    /\ (pc = "raised" /\ raised = "L75") => app_settings.notify_fd # "unset"

C11_Witness ==
    /\ pc = "done"
    /\ app_settings.notify_fd = "3"
    /\ notify = [written |-> 1, closed |-> TRUE]

\* C12: with a supported storage kind and an unsupported event-bus kind lifespan
\* raises at line 62, and then (and ever) no event-bus client has been
\* constructed, no listener task created, no readiness byte written and
\* nothing published.
C12_UnsupportedEventsBeforeClient ==
    /\ app_settings.events_type # "mqtt" =>
          /\ ~mqtt_client
          /\ listener = "none"
          /\ notify.written = 0 /\ ~healthcheck_done
          /\ ~published
          /\ pc \in {"L47", "L50", "L53", "L55", "L55_await", "L61", "raised"}
    /\ (pc = "raised" /\ raised = "L62") =>
          (app_settings.events_type # "mqtt" /\ app_settings.store_type = "psql")

C12_Witness ==
    /\ pc = "raised" /\ raised = "L62"
    /\ app_settings.store_type = "psql"
    /\ ~mqtt_client

\* C13: the startup steps come in the order: engine acquired, then poller task
\* started, then listener task started, then state published.
C13_StartupOrder ==
    published => startup_order = << "engine", "poller", "listener", "published" >>

\* C14: a message that was appended has had its storage write run, unless it is
\* the one in flight; a listener that has ended has no message in flight, so a
\* cancellation that arrives during a storage write ends the listener only
\* after that write.
C14_InflightCompletesBeforeExit ==
    /\ \A i \in 1..Len(items) : items[i] \in writes \/ items[i] = inflight
    /\ ListenerTerminal => inflight = 0
    /\ listener = "cancelled" => \A i \in 1..Len(items) : items[i] \in writes

C14_Witness ==
    /\ pc = "L92"
    /\ listener = "cancelled"
    /\ cancelledFrom = "writing"
    /\ items # << >>
    /\ items[Len(items)] \in writes

\* C15: once the listener has failed, the system does not go on serving: no
\* step leaves it serving with the listener dead.
C15_ListenerFailureSurfaced ==
    [][~(pc = "serving" /\ listener = "failed" /\ pc' = "serving")]_vars

StopPcs == {"L86", "L89", "L92", "L92_await"}

\* C16: no statement of the shutdown half of lifespan changes the poller task,
\* and the task is still running (sleeping or fetching) when lifespan has
\* ended.
C16_PollerUntouchedByStop ==
    /\ [](pc = "done" => poller \in {"sleeping", "fetching"})
    /\ [][(pc \in StopPcs /\ pc' # pc) => UNCHANGED pollerVars]_vars

C16_Witness ==
    /\ pc = "done"
    /\ poller = "fetching"
    /\ listener = "cancelled"

\* C17: the buffer never holds more than maxlen records, and what a read
\* returned is the last min(k, maxlen) of the first k records appended, for
\* some k.
C17_SnapshotIsValidState ==
    LET wf == WellFormedIds(delivered)
        c == state_ring_buffer.maxlen
    IN /\ Len(items) <= c
       /\ \E k \in 0..Len(wf) : snapshot = LastN(SubSeq(wf, 1, k), c)

C17_Witness ==
    /\ pc = "serving"
    /\ snapshot = << 1 >>
    /\ items = << 1, 2 >>

\* C18: a lifespan that published its state and has ended, normally or by an
\* exception of its shutdown half, has disposed the engine exactly once.
C18_DisposeOnEveryShutdown ==
    (published /\ pc \in {"done", "raised"}) => disposes = 1

\* C19: when startup fails after the engine was acquired (lines 62, 64, 72, 73,
\* 75), no background task is left running and the engine is not left
\* acquired.
C19_FailedStartReleasesAll ==
    (pc = "raised" /\ raised \in {"L62", "L64", "L72", "L73", "L75"}) =>
          /\ poller \in {"none", "cancelled"}
          /\ listener \in {"none", "cancelled"}
          /\ engine \in {"none", "disposed"}

\* C20: the buffer and the engine the yielded state refers to are the objects
\* the listener was given (the deque of line 50, the engine of line 55), so the
\* serving layer reads exactly what the listener has appended; the state is
\* yielded at most once.
C20_PublishedSameInstances ==
    /\ published =>
          /\ yielded.state_ring_buffer = bound.buffer
          /\ yielded.database_engine = bound.engine
          /\ bound = [buffer |-> "deque@50", engine |-> "engine@55"]
          /\ Deref(yielded.state_ring_buffer) =
                LastN(WellFormedIds(delivered), WindowCapacity)
    /\ ~published => yielded = NoState
    /\ Cardinality({i \in DOMAIN startup_order : startup_order[i] = "published"}) <= 1

C20_Witness ==
    /\ pc = "serving"
    /\ yielded.state_ring_buffer = "deque@50"
    /\ Len(delivered) = 3
    /\ snapshot = items
    /\ items = << 1, 3 >>

====
